---------------------------- MODULE Spec2Model ----------------------------
(***************************************************************************)
(* Model of m-epasta/tiktokApp: the lexical classifier and emoji assigner  *)
(* (scripts/whisper_transcribe.py, class AIEnhancer), the annotator CLI    *)
(* (transcribe_to_srt, main) and the overlay filter generator              *)
(* (scripts/generate_emoji_overlays.py).                                   *)
(*                                                                         *)
(* Strings are sequences of one-character strings; a character outside     *)
(* ASCII is written "U+XXXX".  The source file stores its non-ASCII        *)
(* literals double-encoded, so the sequences below are the strings the     *)
(* interpreter actually sees.                                              *)
(***************************************************************************)
EXTENDS Integers, Sequences, FiniteSets, TLC

VARIABLES
    \* AIEnhancer functions applied to drawn inputs
    lx_op, lx_words, lx_prev, lx_word, lx_sentiment, lx_result,
    \* parse_ass_file and generate_overlay_filter applied to drawn inputs
    ov_op, ov_content, ov_emojis_data, ov_map_exists, ov_emoji_map, ov_out,
    \* the overlay generator run as a program: position, arguments, files,
    \* emoji_images/emoji_map.json, locals and exit status
    cli_pc, cli_argv, cli_fs, cli_map_exists, cli_emoji_map, cli_emojis_data,
    cli_filter_str, cli_output_file, cli_exit,
    \* the annotator run as a program: position, arguments, locals of main and
    \* transcribe_to_srt, the rows written, the exception raised and where,
    \* the path its message names, and the exit status
    an_pc, an_argv, an_model_size, an_warned, an_model_loaded, an_segments,
    an_ass_output, an_out_opened, an_events, an_seg, an_w, an_sentiment, an_counts,
    an_sentiment_stats, an_stats, an_failure, an_exc, an_error_path, an_exit

lexVars == <<lx_op, lx_words, lx_prev, lx_word, lx_sentiment, lx_result>>

overlayVars == <<ov_op, ov_content, ov_emojis_data, ov_map_exists, ov_emoji_map, ov_out>>

cliVars == <<cli_pc, cli_argv, cli_fs, cli_map_exists, cli_emoji_map, cli_emojis_data,
             cli_filter_str, cli_output_file, cli_exit>>

annotVars == <<an_pc, an_argv, an_model_size, an_warned, an_model_loaded, an_segments,
               an_ass_output, an_out_opened, an_events, an_seg, an_w, an_sentiment,
               an_counts, an_sentiment_stats, an_stats, an_failure, an_exc,
               an_error_path, an_exit>>

vars == <<lexVars, overlayVars, cliVars, annotVars>>

\* the parts of the state a specification does not use stay at these values
LexIdle ==
    /\ lx_op = "idle"
    /\ lx_words = <<>>
    /\ lx_prev = <<>>
    /\ lx_word = <<>>
    /\ lx_sentiment = "neutral"
    /\ lx_result = "none"

OverlayIdle ==
    /\ ov_op = "idle"
    /\ ov_content = <<>>
    /\ ov_emojis_data = <<>>
    /\ ov_map_exists = FALSE
    /\ ov_emoji_map = <<>>
    /\ ov_out = <<>>

AnnotIdle ==
    /\ an_pc = "idle"
    /\ an_argv = <<>>
    /\ an_model_size = "base"
    /\ an_warned = FALSE
    /\ an_model_loaded = FALSE
    /\ an_segments = <<>>
    /\ an_ass_output = <<>>
    /\ an_out_opened = FALSE
    /\ an_events = <<>>
    /\ an_seg = 0
    /\ an_w = 0
    /\ an_sentiment = "neutral"
    /\ an_counts = <<>>
    /\ an_sentiment_stats = <<>>
    /\ an_stats = <<>>
    /\ an_failure = "none"
    /\ an_exc = "none"
    /\ an_error_path = <<>>
    /\ an_exit = -1

CliIdle ==
    /\ cli_pc = "idle"
    /\ cli_argv = <<>>
    /\ cli_fs = <<>>
    /\ cli_map_exists = FALSE
    /\ cli_emoji_map = <<>>
    /\ cli_emojis_data = <<>>
    /\ cli_filter_str = <<>>
    /\ cli_output_file = <<>>
    /\ cli_exit = -1

---------------------------------------------------------------------------
(* Bounds of the model                                                     *)

\* longest word list drawn for analyze_sentiment / prev_words
MaxListLen == 2

---------------------------------------------------------------------------
(* String primitives of the Python runtime                                 *)

UpperLetters ==
    <<"A","B","C","D","E","F","G","H","I","J","K","L","M",
      "N","O","P","Q","R","S","T","U","V","W","X","Y","Z">>

LowerLetters ==
    <<"a","b","c","d","e","f","g","h","i","j","k","l","m",
      "n","o","p","q","r","s","t","u","v","w","x","y","z">>

\* str.lower() on one character
LowerChar(c) ==
    IF \E i \in 1..Len(UpperLetters) : UpperLetters[i] = c
    THEN LowerLetters[CHOOSE i \in 1..Len(UpperLetters) : UpperLetters[i] = c]
    ELSE c

\* str.upper() on one character
UpperChar(c) ==
    IF \E i \in 1..Len(LowerLetters) : LowerLetters[i] = c
    THEN UpperLetters[CHOOSE i \in 1..Len(LowerLetters) : LowerLetters[i] = c]
    ELSE c

RECURSIVE MapChars(_, _)
MapChars(s, up) ==
    IF s = <<>> THEN <<>>
    ELSE <<IF up THEN UpperChar(Head(s)) ELSE LowerChar(Head(s))>> \o MapChars(Tail(s), up)

\* str.lower()
Lower(s) ==
    MapChars(s, FALSE)

\* str.upper()
Upper(s) ==
    MapChars(s, TRUE)

RECURSIVE LStrip(_, _)
LStrip(s, chars) ==
    IF s # <<>> /\ Head(s) \in chars THEN LStrip(Tail(s), chars) ELSE s

RECURSIVE RStrip(_, _)
RStrip(s, chars) ==
    IF s # <<>> /\ s[Len(s)] \in chars THEN RStrip(SubSeq(s, 1, Len(s) - 1), chars) ELSE s

\* str.strip(chars): remove leading and trailing characters of the set
Strip(s, chars) ==
    RStrip(LStrip(s, chars), chars)

\* the argument of .strip('.,!?;:')
PunctChars ==
    {".", ",", "!", "?", ";", ":"}

\* what str.strip() without argument removes
Whitespace ==
    {" ", "\t", "\n", "\r"}

\* Python's `p in s` on strings
Contains(s, p) ==
    \E i \in 0..(Len(s) - Len(p)) : SubSeq(s, i + 1, i + Len(p)) = p

RECURSIVE JoinSpace(_)
\* ' '.join(list)
JoinSpace(ws) ==
    IF ws = <<>> THEN <<>>
    ELSE IF Len(ws) = 1 THEN ws[1]
    ELSE ws[1] \o <<" ">> \o JoinSpace(Tail(ws))

\* Optional[...] values: None, or a present value
None ==
    <<>>

Some(x) ==
    <<x>>

\* the None returned by get_contextual_emoji, among glyph strings
NoEmoji ==
    "None"

---------------------------------------------------------------------------
(* Constants and lexicons of whisper_transcribe.py                         *)

MAX_WORD_LENGTH == 100

\* emoji glyph literals (stored double-encoded in the source)
HEART == "heart"
SPARKLING_HEART == "sparkling_heart"
THUMBS_UP == "thumbs_up"
SMILE == "smile"
SPARKLES == "sparkles"
FIRE == "fire"
THOUGHT == "thought_balloon"
DASH == "dash"
TROPHY == "trophy"
BULB == "light_bulb"
BUSTS == "busts"
CLOCK == "alarm_clock"
THINKING == "thinking_face"

\* class Sentiment
POSITIVE == "positive"
NEGATIVE == "negative"
ENERGETIC == "energetic"
NEUTRAL == "neutral"

\* filler_words (whisper_transcribe.py:77-81)
filler_words ==
  {
    <<"t", "h", "e">>, <<"a">>, <<"a", "n">>, <<"a", "n", "d">>, <<"o", "r">>,
    <<"b", "u", "t">>, <<"i", "n">>, <<"o", "n">>, <<"a", "t">>, <<"t", "o">>,
    <<"f", "o", "r">>, <<"l", "e">>, <<"l", "a">>, <<"l", "e", "s">>, <<"u", "n">>,
    <<"u", "n", "e">>, <<"d", "e", "s">>, <<"d", "e">>, <<"d", "u">>, <<"e", "t">>,
    <<"o", "u">>, <<"m", "a", "i", "s">>
  }

\* positive_words (whisper_transcribe.py:84-88)
positive_words ==
  {
    <<"l", "o", "v", "e">>, <<"h", "a", "p", "p", "y">>, <<"g", "r", "e", "a", "t">>,
    <<"a", "m", "a", "z", "i", "n", "g">>, <<"a", "w", "e", "s", "o", "m", "e">>,
    <<"p", "e", "r", "f", "e", "c", "t">>, <<"b", "e", "s", "t">>, <<"a", "m", "o", "u", "r">>,
    <<"a", "i", "m", "e", "r">>, <<"h", "e", "u", "r", "e", "u", "x">>,
    <<"h", "e", "u", "r", "e", "u", "s", "e">>,
    <<"g", "U+00C3", "U+00A9", "n", "i", "a", "l">>,
    <<"g", "U+00C3", "U+00A9", "n", "i", "a", "l", "e">>, <<"s", "u", "p", "e", "r">>
  }

\* negative_words (whisper_transcribe.py:90-94)
negative_words ==
  {
    <<"h", "a", "t", "e">>, <<"s", "a", "d">>, <<"b", "a", "d">>,
    <<"t", "e", "r", "r", "i", "b", "l", "e">>, <<"a", "w", "f", "u", "l">>,
    <<"w", "o", "r", "s", "t">>, <<"h", "o", "r", "r", "i", "b", "l", "e">>,
    <<"d", "U+00C3", "U+00A9", "t", "e", "s", "t", "e", "r">>,
    <<"t", "r", "i", "s", "t", "e">>, <<"m", "a", "u", "v", "a", "i", "s">>,
    <<"m", "a", "u", "v", "a", "i", "s", "e">>
  }

\* energetic_words (whisper_transcribe.py:96-100)
energetic_words ==
  {
    <<"f", "i", "r", "e">>, <<"l", "i", "t">>, <<"h", "o", "t">>, <<"c", "r", "a", "z", "y">>,
    <<"w", "i", "l", "d">>, <<"i", "n", "s", "a", "n", "e">>,
    <<"e", "x", "p", "l", "o", "s", "i", "v", "e">>, <<"f", "e", "u">>,
    <<"c", "h", "a", "u", "d">>, <<"c", "h", "a", "u", "d", "e">>, <<"f", "o", "u">>,
    <<"f", "o", "l", "l", "e">>, <<"d", "i", "n", "g", "u", "e">>,
    <<"s", "a", "u", "v", "a", "g", "e">>
  }

\* emoji_map: emoji_categories flattened (whisper_transcribe.py:103-115)
emoji_map_items ==
  {
    <<<<"l", "o", "v", "e">>, HEART>>, <<<<"h", "e", "a", "r", "t">>, SPARKLING_HEART>>,
    <<<<"l", "i", "k", "e">>, THUMBS_UP>>, <<<<"h", "a", "p", "p", "y">>, SMILE>>,
    <<<<"a", "m", "o", "u", "r">>, HEART>>, <<<<"c", "o", "e", "u", "r">>, SPARKLING_HEART>>,
    <<<<"c", "U+00C5", "U+201C", "u", "r">>, SPARKLING_HEART>>,
    <<<<"a", "i", "m", "e", "r">>, HEART>>
  }

\* emphasis_words (whisper_transcribe.py:118-122)
emphasis_words ==
  {
    <<"i", "m", "p", "o", "r", "t", "a", "n", "t">>, <<"n", "e", "v", "e", "r">>,
    <<"a", "l", "w", "a", "y", "s">>, <<"m", "u", "s", "t">>, <<"n", "e", "e", "d">>,
    <<"c", "r", "i", "t", "i", "c", "a", "l">>, <<"j", "a", "m", "a", "i", "s">>,
    <<"t", "o", "u", "j", "o", "u", "r", "s">>, <<"d", "o", "i", "t">>,
    <<"b", "e", "s", "o", "i", "n">>, <<"c", "r", "i", "t", "i", "q", "u", "e">>
  }

\* patterns tested at whisper_transcribe.py:186
motion_patterns ==
  {
    <<"i", "n", "g">>, <<"e", "d">>, <<"r", "u", "n">>, <<"j", "u", "m", "p">>,
    <<"m", "o", "v", "e">>, <<"w", "o", "r", "k">>, <<"e", "r">>, <<"a", "n", "t">>,
    <<"e", "n", "t">>, <<"c", "o", "u", "r", "i", "r">>, <<"s", "a", "u", "t", "e", "r">>,
    <<"b", "o", "u", "g", "e", "r">>, <<"t", "r", "a", "v", "a", "i", "l", "l", "e", "r">>
  }

\* patterns tested at whisper_transcribe.py:189
achievement_patterns ==
  {
    <<"a", "c", "h", "i", "e", "v">>, <<"s", "u", "c", "c", "e", "s", "s">>,
    <<"c", "o", "m", "p", "l", "e", "t">>, <<"f", "i", "n", "i", "s", "h">>,
    <<"a", "c", "c", "o", "m", "p", "l", "i", "s", "h">>,
    <<"r", "U+00C3", "U+00A9", "u", "s", "s", "i", "r">>,
    <<"s", "u", "c", "c", "U+00C3", "U+00A8", "s">>,
    <<"t", "e", "r", "m", "i", "n", "e", "r">>, <<"a", "c", "c", "o", "m", "p", "l", "i", "r">>
  }

\* patterns tested at whisper_transcribe.py:192
learning_patterns ==
  {
    <<"l", "e", "a", "r", "n">>, <<"k", "n", "o", "w">>,
    <<"u", "n", "d", "e", "r", "s", "t", "a", "n", "d">>, <<"s", "t", "u", "d", "y">>,
    <<"t", "e", "a", "c", "h">>, <<"a", "p", "p", "r", "e", "n", "d", "r", "e">>,
    <<"s", "a", "v", "o", "i", "r">>, <<"c", "o", "m", "p", "r", "e", "n", "d", "r", "e">>,
    <<"U+00C3", "U+00A9", "t", "u", "d", "i", "e", "r">>,
    <<"e", "n", "s", "e", "i", "g", "n", "e", "r">>
  }

\* patterns tested at whisper_transcribe.py:195
social_patterns ==
  {
    <<"f", "r", "i", "e", "n", "d">>, <<"f", "a", "m", "i", "l", "y">>,
    <<"p", "e", "o", "p", "l", "e">>, <<"p", "e", "r", "s", "o", "n">>, <<"t", "e", "a", "m">>,
    <<"a", "m", "i">>, <<"a", "m", "i", "s">>, <<"f", "a", "m", "i", "l", "l", "e">>,
    <<"g", "e", "n", "s">>, <<"p", "e", "r", "s", "o", "n", "n", "e">>,
    <<"U+00C3", "U+00A9", "q", "u", "i", "p", "e">>
  }

\* patterns tested at whisper_transcribe.py:198
temporal_patterns ==
  {
    <<"t", "o", "d", "a", "y">>, <<"t", "o", "m", "o", "r", "r", "o", "w">>,
    <<"y", "e", "s", "t", "e", "r", "d", "a", "y">>, <<"t", "i", "m", "e">>,
    <<"m", "o", "m", "e", "n", "t">>,
    <<"a", "u", "j", "o", "u", "r", "d", "'", "h", "u", "i">>,
    <<"d", "e", "m", "a", "i", "n">>, <<"h", "i", "e", "r">>, <<"t", "e", "m", "p", "s">>
  }

\* patterns tested at whisper_transcribe.py:201
interrogative_patterns ==
  {
    <<"w", "h", "y">>, <<"h", "o", "w">>, <<"w", "h", "a", "t">>,
    <<"q", "u", "e", "s", "t", "i", "o", "n">>, <<"w", "o", "n", "d", "e", "r">>,
    <<"p", "o", "u", "r", "q", "u", "o", "i">>, <<"c", "o", "m", "m", "e", "n", "t">>,
    <<"q", "u", "o", "i">>
  }

\* celebration words (whisper_transcribe.py:358-359)
celebration_words ==
  {
    <<"p", "a", "r", "t", "y">>, <<"c", "e", "l", "e", "b", "r", "a", "t", "e">>,
    <<"c", "o", "n", "g", "r", "a", "t", "s">>,
    <<"c", "o", "n", "g", "r", "a", "t", "u", "l", "a", "t", "i", "o", "n", "s">>,
    <<"b", "i", "r", "t", "h", "d", "a", "y">>, <<"f", "U+00C3", "U+00AA", "t", "e">>,
    <<"f", "U+00C3", "U+00AA", "t", "e", "r">>,
    <<"c", "U+00C3", "U+00A9", "l", "U+00C3", "U+00A9", "b", "r", "e", "r">>,
    <<"a", "n", "n", "i", "v", "e", "r", "s", "a", "i", "r", "e">>,
    <<"f", "U+00C3", "U+00A9", "l", "i", "c", "i", "t", "a", "t", "i", "o", "n", "s">>
  }

\* word in self.emoji_map
InEmojiMap(word) ==
    \E it \in emoji_map_items : it[1] = word

\* self.emoji_map[word]
emoji_map(word) ==
    (CHOOSE it \in emoji_map_items : it[1] = word)[2]

---------------------------------------------------------------------------
(* AIEnhancer                                                              *)

\* the normalisation of analyze_sentiment: w.lower().strip('.,!?;:')
NormalizeSentimentWord(w) ==
    Strip(Lower(w), PunctChars)

RECURSIVE NormalizeAll(_)
\* [w.lower().strip('.,!?;:') for w in words_list if w]
NormalizeAll(ws) ==
    IF ws = <<>> THEN <<>>
    ELSE IF Head(ws) = <<>> THEN NormalizeAll(Tail(ws))
    ELSE <<NormalizeSentimentWord(Head(ws))>> \o NormalizeAll(Tail(ws))

CountIn(ws, lexicon) ==
    Len(SelectSeq(ws, LAMBDA w : w \in lexicon))

\* variant: a tie between positive and negative counts resolved as positive
analyze_sentiment_tie(words_list) ==
    IF words_list = <<>> THEN NEUTRAL
    ELSE
      LET words_lower == NormalizeAll(words_list)
          positive_count == CountIn(words_lower, positive_words)
          negative_count == CountIn(words_lower, negative_words)
          energetic_count == CountIn(words_lower, energetic_words)
      IN  IF energetic_count >= 1 THEN ENERGETIC
          ELSE IF positive_count >= negative_count /\ positive_count >= 1 THEN POSITIVE
          ELSE IF negative_count > positive_count /\ negative_count >= 1 THEN NEGATIVE
          ELSE NEUTRAL

analyze_sentiment(words_list) ==
    IF words_list = <<>> THEN NEUTRAL
    ELSE
      LET words_lower == NormalizeAll(words_list)
          positive_count == CountIn(words_lower, positive_words)
          negative_count == CountIn(words_lower, negative_words)
          energetic_count == CountIn(words_lower, energetic_words)
      IN  IF energetic_count >= 1 THEN ENERGETIC
          ELSE IF positive_count > negative_count /\ positive_count >= 1 THEN POSITIVE
          ELSE IF negative_count > positive_count /\ negative_count >= 1 THEN NEGATIVE
          ELSE NEUTRAL

\* variant: the length rule written with > instead of >=
is_important_word_gt(word) ==
    IF word = <<>> \/ Len(word) > MAX_WORD_LENGTH THEN FALSE
    ELSE IF word \in filler_words THEN FALSE
    ELSE IF word \in emphasis_words THEN TRUE
    ELSE IF word \in positive_words \/ word \in negative_words \/ word \in energetic_words
         THEN TRUE
    ELSE IF Len(word) > 5 THEN TRUE
    ELSE FALSE

is_important_word(word) ==
    IF word = <<>> \/ Len(word) > MAX_WORD_LENGTH THEN FALSE
    ELSE IF word \in filler_words THEN FALSE
    ELSE IF word \in emphasis_words THEN TRUE
    ELSE IF word \in positive_words \/ word \in negative_words \/ word \in energetic_words
         THEN TRUE
    ELSE IF Len(word) >= 5 THEN TRUE
    ELSE FALSE

MatchesAny(word, patterns) ==
    \E p \in patterns : Contains(word, p)

\* variant: the learning family tested before the motion family
assign_smart_emoji_swapped(word, sentiment) ==
    IF InEmojiMap(word) THEN emoji_map(word)
    ELSE IF sentiment = "positive" THEN SPARKLES
    ELSE IF sentiment = "energetic" THEN FIRE
    ELSE IF sentiment = "negative" THEN THOUGHT
    ELSE IF MatchesAny(word, learning_patterns) THEN BULB
    ELSE IF MatchesAny(word, motion_patterns) THEN DASH
    ELSE IF MatchesAny(word, achievement_patterns) THEN TROPHY
    ELSE IF MatchesAny(word, social_patterns) THEN BUSTS
    ELSE IF MatchesAny(word, temporal_patterns) THEN CLOCK
    ELSE IF MatchesAny(word, interrogative_patterns) THEN THINKING
    ELSE SPARKLES

assign_smart_emoji(word, sentiment) ==
    IF InEmojiMap(word) THEN emoji_map(word)
    ELSE IF sentiment = "positive" THEN SPARKLES
    ELSE IF sentiment = "energetic" THEN FIRE
    ELSE IF sentiment = "negative" THEN THOUGHT
    ELSE IF MatchesAny(word, motion_patterns) THEN DASH
    ELSE IF MatchesAny(word, achievement_patterns) THEN TROPHY
    ELSE IF MatchesAny(word, learning_patterns) THEN BULB
    ELSE IF MatchesAny(word, social_patterns) THEN BUSTS
    ELSE IF MatchesAny(word, temporal_patterns) THEN CLOCK
    ELSE IF MatchesAny(word, interrogative_patterns) THEN THINKING
    ELSE SPARKLES

\* variant: the heart rule without its test of the current word
get_contextual_emoji_anyword(word, prev_words) ==
    IF InEmojiMap(word) THEN emoji_map(word)
    ELSE IF prev_words # None /\ prev_words[1] # <<>>
    THEN LET prev_text == Lower(JoinSpace(prev_words[1]))
         IN  IF Contains(prev_text, <<"o","n"," ","f","i","r","e">>)
                /\ word \in {<<"f","i","r","e">>, <<"h","o","t">>}
             THEN FIRE
             ELSE IF Contains(prev_text, <<"l","o","v","e">>)
             THEN HEART
             ELSE NoEmoji
    ELSE NoEmoji

get_contextual_emoji(word, prev_words) ==
    IF InEmojiMap(word) THEN emoji_map(word)
    ELSE IF prev_words # None /\ prev_words[1] # <<>>
    THEN LET prev_text == Lower(JoinSpace(prev_words[1]))
         IN  IF Contains(prev_text, <<"o","n"," ","f","i","r","e">>)
                /\ word \in {<<"f","i","r","e">>, <<"h","o","t">>}
             THEN FIRE
             ELSE IF Contains(prev_text, <<"l","o","v","e">>)
                     /\ word \in {<<"y","o","u">>, <<"i","t">>, <<"t","h","i","s">>}
             THEN HEART
             ELSE NoEmoji
    ELSE NoEmoji

should_emphasize(word) ==
    word \in emphasis_words

---------------------------------------------------------------------------
(* Inputs drawn for the AIEnhancer functions                               *)

\* raw tokens as a recogniser may deliver them
RawWords ==
    { <<"I">>, <<"l","o","v","e">>, <<"L","o","v","e","!">>, <<"h","a","t","e">>,
      <<"o","n">>, <<"f","i","r","e">>, <<>>, <<" ","l","o","v","e">> }

RECURSIVE SeqsUpTo(_, _)
SeqsUpTo(S, n) ==
    IF n = 0 THEN {<<>>}
    ELSE LET shorter == SeqsUpTo(S, n - 1)
         IN  shorter \cup {Append(s, x) : s \in shorter, x \in S}

\* the scenario of the specification: ["I","love","this","so","much"]
ScenarioList ==
    << <<"I">>, <<"l","o","v","e">>, <<"t","h","i","s">>, <<"s","o">>, <<"m","u","c","h">> >>

WordLists ==
    SeqsUpTo(RawWords, MaxListLen) \cup {ScenarioList}

\* a word longer than MAX_WORD_LENGTH
LongWord ==
    [i \in 1..(MAX_WORD_LENGTH + 1) |-> "a"]

\* a word of exactly MAX_WORD_LENGTH characters
FullWord ==
    [i \in 1..MAX_WORD_LENGTH |-> "a"]

\* words tried with a context
CtxWords ==
    { <<"l","o","v","e">>, <<"y","o","u">>, <<"i","t">>, <<"t","h","i","s">>,
      <<"f","i","r","e">>, <<"h","o","t">>, <<"h","e","l","l","o">>, <<"a","m","o","u","r">> }

\* normalized words tried with every sentiment label
NormWords ==
    CtxWords \cup
    { <<>>, <<"t","h","e">>, <<"m","a","i","s">>, <<"i","m","p","o","r","t","a","n","t">>,
      <<"h","a","t","e">>, <<"h","a","p","p","y">>, <<"x","y","z">>, <<"q","u","i","z">>,
      <<"r","u","n","n","i","n","g">>, <<"l","e","a","r","n","i","n","g">>,
      <<"a","c","h","i","e","v","e","r">>, <<"s","u","c","c","e","s","s">>,
      <<"k","n","o","w">>, <<"t","e","a","m">>, <<"t","i","m","e">>,
      <<"f","a","m","i","l","y","t","i","m","e">>, <<"w","h","a","t">>,
      <<"t","o","d","a","y","w","h","y">>, <<"p","a","r","t","y">>,
      <<"z","o","o","m","s">>, LongWord, FullWord }

SentimentLabels ==
    {POSITIVE, NEGATIVE, ENERGETIC, NEUTRAL, "unknown"}

---------------------------------------------------------------------------
(* Specification SpecLex: the AIEnhancer functions on drawn inputs         *)

LexInit ==
    /\ lx_op = "none"
    /\ lx_result = "none"
    /\ \/ /\ lx_words \in WordLists
          /\ lx_prev \in {None, Some(lx_words)}
          /\ lx_word \in CtxWords
          /\ lx_sentiment = NEUTRAL
       \/ /\ lx_words = <<>>
          /\ lx_prev = None
          /\ lx_word \in NormWords
          /\ lx_sentiment \in SentimentLabels

AnalyzeSentiment ==
    /\ lx_op = "none"
    /\ lx_op' = "analyze_sentiment"
    /\ lx_result' = analyze_sentiment(lx_words)
    /\ UNCHANGED <<lx_words, lx_prev, lx_word, lx_sentiment>>
    /\ UNCHANGED <<overlayVars, cliVars, annotVars>>

IsImportantWord ==
    /\ lx_op = "none"
    /\ lx_op' = "is_important_word"
    /\ lx_result' = is_important_word(lx_word)
    /\ UNCHANGED <<lx_words, lx_prev, lx_word, lx_sentiment>>
    /\ UNCHANGED <<overlayVars, cliVars, annotVars>>

AssignSmartEmoji ==
    /\ lx_op = "none"
    /\ lx_op' = "assign_smart_emoji"
    /\ lx_result' = assign_smart_emoji(lx_word, lx_sentiment)
    /\ UNCHANGED <<lx_words, lx_prev, lx_word, lx_sentiment>>
    /\ UNCHANGED <<overlayVars, cliVars, annotVars>>

GetContextualEmoji ==
    /\ lx_op = "none"
    /\ lx_op' = "get_contextual_emoji"
    /\ lx_result' = get_contextual_emoji(lx_word, lx_prev)
    /\ UNCHANGED <<lx_words, lx_prev, lx_word, lx_sentiment>>
    /\ UNCHANGED <<overlayVars, cliVars, annotVars>>

LexNext ==
    \/ AnalyzeSentiment
    \/ IsImportantWord
    \/ AssignSmartEmoji
    \/ GetContextualEmoji

InitLex ==
    LexInit /\ OverlayIdle /\ CliIdle /\ AnnotIdle

SpecLex ==
    InitLex /\ [][LexNext]_vars

---------------------------------------------------------------------------
(* Strings of generate_emoji_overlays.py                                   *)
(*                                                                         *)
(* In this part a string is the sequence of its code points, so that the   *)
(* character ranges of the emoji pattern, the hexadecimal escapes and the  *)
(* UTF-8 encoding are computed by arithmetic.  The literal is given in a   *)
(* comment next to each sequence.                                          *)

\* str.startswith
StartsWith(s, p) ==
    Len(s) >= Len(p) /\ SubSeq(s, 1, Len(p)) = p

\* str.find: first index (from 1) at which sep occurs in s, 0 if none
FindFirst(s, sep) ==
    IF \E i \in 1..(Len(s) - Len(sep) + 1) : SubSeq(s, i, i + Len(sep) - 1) = sep
    THEN CHOOSE i \in 1..(Len(s) - Len(sep) + 1) :
             /\ SubSeq(s, i, i + Len(sep) - 1) = sep
             /\ \A j \in 1..(i - 1) : SubSeq(s, j, j + Len(sep) - 1) # sep
    ELSE 0

RECURSIVE Split(_, _, _)
\* str.split(sep, maxsplit); maxsplit = -1 is no limit
Split(s, sep, maxsplit) ==
    LET i == FindFirst(s, sep)
    IN  IF maxsplit = 0 \/ i = 0 THEN <<s>>
        ELSE <<SubSeq(s, 1, i - 1)>>
             \o Split(SubSeq(s, i + Len(sep), Len(s)), sep,
                      IF maxsplit < 0 THEN maxsplit ELSE maxsplit - 1)

RECURSIVE Replace(_, _, _)
\* str.replace(old, new): every non-overlapping occurrence, left to right
Replace(s, old, new) ==
    LET i == FindFirst(s, old)
    IN  IF i = 0 THEN s
        ELSE SubSeq(s, 1, i - 1) \o new
             \o Replace(SubSeq(s, i + Len(old), Len(s)), old, new)

RECURSIVE Flatten(_)
Flatten(ss) ==
    IF ss = <<>> THEN <<>> ELSE Head(ss) \o Flatten(Tail(ss))

\* [0-9a-fA-F]
IsHexDigit(c) ==
    \/ c \in 48..57
    \/ c \in 97..102
    \/ c \in 65..70

HexValue(c) ==
    IF c \in 48..57 THEN c - 48
    ELSE IF c \in 97..102 THEN c - 87
    ELSE c - 55

RECURSIVE HexNumber(_)
HexNumber(ds) ==
    IF ds = <<>> THEN 0
    ELSE 16 * HexNumber(SubSeq(ds, 1, Len(ds) - 1)) + HexValue(ds[Len(ds)])

AllHex(s, from, n) ==
    /\ from + n - 1 <= Len(s)
    /\ \A k \in from..(from + n - 1) : IsHexDigit(s[k])

\* [0-9]
IsDigit(c) ==
    c \in 48..57

RECURSIVE DecNumber(_)
DecNumber(ds) ==
    IF ds = <<>> THEN 0
    ELSE 10 * DecNumber(SubSeq(ds, 1, Len(ds) - 1)) + (ds[Len(ds)] - 48)

AllDigits(s) ==
    s # <<>> /\ \A k \in 1..Len(s) : IsDigit(s[k])

IsSurrogate(c) ==
    c \in 55296..57343

---------------------------------------------------------------------------
(* parse_ass_file                                                          *)

\* the character classes of emoji_pattern
InEmojiRange(c) ==
    \/ c \in 128512..128591      \* U+1F600-U+1F64F emoticons
    \/ c \in 127744..128511      \* U+1F300-U+1F5FF symbols & pictographs
    \/ c \in 128640..128767      \* U+1F680-U+1F6FF transport & map symbols
    \/ c \in 127456..127487      \* U+1F1E0-U+1F1FF flags
    \/ c \in 9986..10160         \* U+2702-U+27B0
    \/ c \in 9410..127569        \* U+24C2-U+1F251

\* length of the text matched at position i by one iteration of the
\* pattern's group (the alternatives are tried in their order), 0 if none
GroupMatchLen(s, i) ==
    IF InEmojiRange(s[i]) THEN 1
    ELSE IF s[i] = 92 /\ i + 1 <= Len(s) /\ s[i + 1] = 117 /\ AllHex(s, i + 2, 4)
         THEN 6                  \* \uXXXX
    ELSE IF s[i] = 92 /\ i + 1 <= Len(s) /\ s[i + 1] = 85 /\ AllHex(s, i + 2, 8)
         THEN 10                 \* \UXXXXXXXX
    ELSE IF /\ s[i] = 92 /\ i + 5 <= Len(s) /\ s[i + 1] = 117 /\ s[i + 2] = 100
            /\ s[i + 3] \in ({56, 57} \cup (97..102) \cup (65..70))
            /\ AllHex(s, i + 4, 2)
         THEN 6                  \* \udXXX
    ELSE 0

RECURSIVE GroupIterations(_, _)
\* the successive iterations of the group in the greedy match of (...)+
\* that starts at position i
GroupIterations(s, i) ==
    IF i > Len(s) \/ GroupMatchLen(s, i) = 0 THEN <<>>
    ELSE <<SubSeq(s, i, i + GroupMatchLen(s, i) - 1)>>
         \o GroupIterations(s, i + GroupMatchLen(s, i))

RECURSIVE Matches(_, _)
\* the non-overlapping matches of emoji_pattern in s from position i on,
\* each as the list of its group iterations
Matches(s, i) ==
    IF i > Len(s) THEN <<>>
    ELSE LET its == GroupIterations(s, i)
         IN  IF its = <<>> THEN Matches(s, i + 1)
             ELSE <<its>> \o Matches(s, i + Len(Flatten(its)))

\* emoji_pattern.findall(text): the pattern has one capturing group, so
\* re.findall gives for each match the text of that group, which under +
\* is the text of its last iteration
findall(s) ==
    LET ms == Matches(s, 1)
    IN  [k \in 1..Len(ms) |-> ms[k][Len(ms[k])]]

\* the occurrences of one line
ParseLine(line) ==
    IF StartsWith(line, <<68, 105, 97, 108, 111, 103, 117, 101, 58>>)  \* 'Dialogue:'
    THEN LET parts == Split(line, <<44>>, 9)  \* ','
         IN  IF Len(parts) < 10 THEN <<>>
             ELSE LET emojis == findall(parts[10])
                  IN  [k \in 1..Len(emojis) |->
                          [emoji |-> emojis[k], start |-> parts[2],
                           end |-> parts[3], text |-> parts[10]]]
    ELSE <<>>

RECURSIVE ParseLines(_)
ParseLines(lines) ==
    IF lines = <<>> THEN <<>>
    ELSE ParseLine(Head(lines)) \o ParseLines(Tail(lines))

\* parse_ass_file applied to the text of the file
parse_ass_file(content) ==
    LET events_section ==
            IF FindFirst(content, <<91, 69, 118, 101, 110, 116, 115, 93>>) # 0  \* '[Events]'
            THEN Split(content, <<91, 69, 118, 101, 110, 116, 115, 93>>, -1)[2]  \* '[Events]'
            ELSE <<>>
    IN  ParseLines(Split(events_section, <<10>>, -1))

---------------------------------------------------------------------------
(* generate_overlay_filter                                                 *)

\* str.encode(): the UTF-8 bytes of one code point
Utf8Bytes(c) ==
    IF c < 128 THEN <<c>>
    ELSE IF c < 2048 THEN <<192 + (c \div 64), 128 + (c % 64)>>
    ELSE IF c < 65536
         THEN <<224 + (c \div 4096), 128 + ((c \div 64) % 64), 128 + (c % 64)>>
    ELSE <<240 + (c \div 262144), 128 + ((c \div 4096) % 64),
           128 + ((c \div 64) % 64), 128 + (c % 64)>>

RECURSIVE Encode(_)
Encode(s) ==
    IF s = <<>> THEN <<>> ELSE Utf8Bytes(Head(s)) \o Encode(Tail(s))

\* can bytes.decode('unicode-escape') read the bytes from position i on
RECURSIVE EscapeDecodable(_, _)
EscapeDecodable(b, i) ==
    IF i > Len(b) THEN TRUE
    ELSE IF b[i] # 92 THEN EscapeDecodable(b, i + 1)
    ELSE IF i = Len(b) THEN FALSE                      \* "\" at end of string
    ELSE IF b[i + 1] = 117
         THEN AllHex(b, i + 2, 4) /\ EscapeDecodable(b, i + 6)
    ELSE IF b[i + 1] = 85
         THEN /\ AllHex(b, i + 2, 8)
              /\ HexNumber(SubSeq(b, i + 2, i + 9)) <= 1114111
              /\ EscapeDecodable(b, i + 10)
    ELSE EscapeDecodable(b, i + 2)

\* bytes.decode('unicode-escape'): \uXXXX and \UXXXXXXXX give the code
\* point, \\ gives a backslash, every other byte gives the Latin-1
\* character of that byte (the inputs drawn hold no other escape)
RECURSIVE EscapeDecode(_, _)
EscapeDecode(b, i) ==
    IF i > Len(b) THEN <<>>
    ELSE IF b[i] # 92 THEN <<b[i]>> \o EscapeDecode(b, i + 1)
    ELSE IF b[i + 1] = 117
         THEN <<HexNumber(SubSeq(b, i + 2, i + 5))>> \o EscapeDecode(b, i + 6)
    ELSE IF b[i + 1] = 85
         THEN <<HexNumber(SubSeq(b, i + 2, i + 9))>> \o EscapeDecode(b, i + 10)
    ELSE IF b[i + 1] = 92 THEN <<92>> \o EscapeDecode(b, i + 2)
    ELSE <<b[i], b[i + 1]>> \o EscapeDecode(b, i + 2)

\* lines 97-102: emoji.encode().decode('unicode-escape'), the original
\* string when encoding (a lone surrogate) or decoding fails
DecodeGlyph(emoji) ==
    IF \E k \in 1..Len(emoji) : IsSurrogate(emoji[k]) THEN emoji
    ELSE IF ~EscapeDecodable(Encode(emoji), 1) THEN emoji
    ELSE EscapeDecode(Encode(emoji), 1)

\* print() to a UTF-8 standard output raises UnicodeEncodeError on a
\* surrogate code point
PrintRaises(s) ==
    \E k \in 1..Len(s) : IsSurrogate(s[k])

\* can time_to_seconds read the string (else int()/float() raise ValueError
\* or parts[2] raises IndexError)
TimeReadable(time_str) ==
    LET parts == Split(time_str, <<58>>, -1)  \* ':'
    IN  /\ Len(parts) >= 3
        /\ AllDigits(parts[1])
        /\ AllDigits(parts[2])
        /\ LET sec == Split(parts[3], <<46>>, -1)  \* '.'
           IN  /\ Len(sec) \in {1, 2}
               /\ AllDigits(sec[1])
               /\ Len(sec) = 2 => (AllDigits(sec[2]) /\ Len(sec[2]) <= 2)

\* time_to_seconds, in hundredths of a second (the precision of the
\* H:MM:SS.CC form)
time_to_seconds(time_str) ==
    LET parts == Split(time_str, <<58>>, -1)  \* ':'
        sec == Split(parts[3], <<46>>, -1)  \* '.'
        hours == DecNumber(parts[1])
        minutes == DecNumber(parts[2])
        hundredths ==
            IF Len(sec) = 1 THEN 0
            ELSE IF Len(sec[2]) = 1 THEN 10 * DecNumber(sec[2])
            ELSE DecNumber(sec[2])
    IN  (hours * 3600 + minutes * 60 + DecNumber(sec[1])) * 100 + hundredths

\* the separator of ";".join and of the two halves of a clause
Semicolon ==
    [t |-> "semicolon"]

\* lines 114-115: the clause of occurrence i, as its parts
OverlayClause(i, image_path, start_sec, end_sec) ==
    << [t |-> "movie", image |-> image_path, shift |-> start_sec, label |-> i],
       Semicolon,
       [t |-> "overlay", in |-> i, emoji |-> i, from |-> start_sec,
        to |-> end_sec, out |-> i + 1] >>

RECURSIVE JoinClauses(_)
\* ";".join(overlays)
JoinClauses(overlays) ==
    IF overlays = <<>> THEN <<>>
    ELSE IF Len(overlays) = 1 THEN overlays[1]
    ELSE overlays[1] \o <<Semicolon>> \o JoinClauses(Tail(overlays))

\* lines 93-117: the loop from iteration i (counted from 0) on, with the
\* clauses and the warnings collected so far
RECURSIVE OverlayLoop(_, _, _, _, _)
OverlayLoop(emojis_data, emoji_map_file, i, overlays, warnings) ==
    IF i >= Len(emojis_data)
    THEN [raised |-> "none", overlays |-> overlays, warnings |-> warnings]
    ELSE LET data == emojis_data[i + 1]
             emoji == DecodeGlyph(data.emoji)
         IN  IF emoji \notin DOMAIN emoji_map_file
             THEN IF PrintRaises(emoji)
                  THEN [raised |-> "UnicodeEncodeError", overlays |-> overlays,
                        warnings |-> warnings]
                  ELSE OverlayLoop(emojis_data, emoji_map_file, i + 1, overlays,
                                   Append(warnings, emoji))
             ELSE IF ~TimeReadable(data.start) \/ ~TimeReadable(data.end)
                  THEN [raised |-> "ValueError", overlays |-> overlays,
                        warnings |-> warnings]
                  ELSE OverlayLoop(emojis_data, emoji_map_file, i + 1,
                           Append(overlays,
                                  OverlayClause(i, emoji_map_file[emoji],
                                                time_to_seconds(data.start),
                                                time_to_seconds(data.end))),
                           warnings)

\* generate_overlay_filter: the exception that leaves it ("none" on a
\* return), the returned filter, and the warnings printed
generate_overlay_filter(emojis_data, map_exists, emoji_map_file) ==
    IF ~map_exists
    THEN [raised |-> "none", filter |-> <<>>, warnings |-> <<>>, error |-> TRUE]
    ELSE LET r == OverlayLoop(emojis_data, emoji_map_file, 0, <<>>, <<>>)
         IN  [raised |-> r.raised,
              filter |-> IF r.raised # "none" \/ r.overlays = <<>> THEN <<>>
                         ELSE JoinClauses(r.overlays),
              warnings |-> r.warnings,
              error |-> FALSE]

---------------------------------------------------------------------------
(* Inputs drawn for parse_ass_file and generate_overlay_filter             *)

\* longest markup file drawn, in lines
MaxLines == 3

\* longest list of occurrences drawn
MaxOcc == 3

\* a Dialogue row as transcribe_to_srt writes it (whisper_transcribe.py:364)
\* and tests/test_ass_generation.py shows it
DialogueRow(start, end, text) ==
    \* 'Dialogue: 0,', ',', ',C,,0,0,0,,'
    <<68, 105, 97, 108, 111, 103, 117, 101, 58, 32, 48, 44>> \o start \o <<44>> \o end \o <<44,
       67, 44, 44, 48, 44, 48, 44, 48, 44, 44>> \o text

\* lines of a markup file
AssLines ==
    { <<91, 83, 99, 114, 105, 112, 116, 32, 73, 110, 102, 111, 93>>,  \* '[Script Info]'
      <<91, 69, 118, 101, 110, 116, 115, 93>>,  \* '[Events]'
      \* '0:00:00.00', '0:00:00.50', 'HELLO'
      DialogueRow(<<48, 58, 48, 48, 58, 48, 48, 46, 48, 48>>, <<48, 58, 48, 48, 58, 48, 48, 46,
         53, 48>>, <<72, 69, 76, 76, 79>>),
      \* '0:00:01.00', '0:00:01.50', 'TEST U+1F525'
      DialogueRow(<<48, 58, 48, 48, 58, 48, 49, 46, 48, 48>>, <<48, 58, 48, 48, 58, 48, 49, 46,
         53, 48>>, <<84, 69, 83, 84, 32, 128293>>),
      \* '0:00:02.00', '0:00:02.50', 'A U+1F525U+1F60A, B U+2728'
      DialogueRow(<<48, 58, 48, 48, 58, 48, 50, 46, 48, 48>>, <<48, 58, 48, 48, 58, 48, 50, 46,
         53, 48>>, <<65, 32, 128293, 128522, 44, 32, 66, 32, 10024>>),
      \* 'Dialogue: 0,0:00:03.00,0:00:03.50,C,U+1F525'
      <<68, 105, 97, 108, 111, 103, 117, 101, 58, 32, 48, 44, 48, 58, 48, 48, 58, 48, 51, 46,
         48, 48, 44, 48, 58, 48, 48, 58, 48, 51, 46, 53, 48, 44, 67, 44, 128293>>,
      \* 'Comment: 0,', '0:00:01.00,0:00:01.50,C,,0,0,0,,X U+1F525'
      <<67, 111, 109, 109, 101, 110, 116, 58, 32, 48, 44>> \o <<48, 58, 48, 48, 58, 48, 49, 46,
         48, 48, 44, 48, 58, 48, 48, 58, 48, 49, 46, 53, 48, 44, 67, 44, 44, 48, 44, 48, 44,
         48, 44, 44, 88, 32, 128293>>,
      \* '0:00:04.00', '0:00:04.50', 'HI \ud83d\udc4d'
      DialogueRow(<<48, 58, 48, 48, 58, 48, 52, 46, 48, 48>>, <<48, 58, 48, 48, 58, 48, 52, 46,
         53, 48>>, <<72, 73, 32, 92, 117, 100, 56, 51, 100, 92, 117, 100, 99, 52, 100>>) }

RECURSIVE JoinLines(_)
\* the text of a file with the given lines
JoinLines(lines) ==
    IF lines = <<>> THEN <<>>
    ELSE IF Len(lines) = 1 THEN lines[1]
    ELSE lines[1] \o <<10>> \o JoinLines(Tail(lines))

AssContents ==
    {JoinLines(ls) : ls \in SeqsUpTo(AssLines, MaxLines)}

Occurrence(emoji, start, end) ==
    [emoji |-> emoji, start |-> start, end |-> end, text |-> <<120>>]  \* 'x'

Occurrences ==
    \* '\U0001F525', '0:00:01.00', '0:00:01.50'
    { Occurrence(<<92, 85, 48, 48, 48, 49, 70, 53, 50, 53>>, <<48, 58, 48, 48, 58, 48, 49, 46,
       48, 48>>, <<48, 58, 48, 48, 58, 48, 49, 46, 53, 48>>),
      \* 'U+1F525', '0:00:02.00', '0:00:02.50'
      Occurrence(<<128293>>, <<48, 58, 48, 48, 58, 48, 50, 46, 48, 48>>, <<48, 58, 48, 48, 58,
         48, 50, 46, 53, 48>>),
      \* '\u2728', '0:01:02.25', '1:00:00.00'
      Occurrence(<<92, 117, 50, 55, 50, 56>>, <<48, 58, 48, 49, 58, 48, 50, 46, 50, 53>>, <<49, 58, 48, 48, 58,
         48, 48, 46, 48, 48>>),
      \* 'zz', '0:00:03.00', '0:00:03.50'
      Occurrence(<<122, 122>>, <<48, 58, 48, 48, 58, 48, 51, 46, 48, 48>>, <<48, 58, 48, 48,
         58, 48, 51, 46, 53, 48>>),
      \* '\ud83d', '0:00:04.00', '0:00:04.50'
      Occurrence(<<92, 117, 100, 56, 51, 100>>, <<48, 58, 48, 48, 58, 48, 52, 46, 48, 48>>,
         <<48, 58, 48, 48, 58, 48, 52, 46, 53, 48>>),
      \* 'a\', '0:00:05.00', '0:00:05.50'
      Occurrence(<<97, 92>>, <<48, 58, 48, 48, 58, 48, 53, 46, 48, 48>>, <<48, 58, 48, 48, 58,
         48, 53, 46, 53, 48>>) }

\* contents of emoji_images/emoji_map.json
FullMap ==
    \* 'U+1F525', 'emoji_images/fire.png', 'U+2728', 'emoji_images/sparkles.png'
    (<<128293>> :> <<101, 109, 111, 106, 105, 95, 105, 109, 97, 103, 101, 115, 47, 102, 105,
       114, 101, 46, 112, 110, 103>>) @@ (<<10024>> :> <<101, 109, 111, 106, 105, 95, 105, 109,
       97, 103, 101, 115, 47, 115, 112, 97, 114, 107, 108, 101, 115, 46, 112, 110, 103>>)

FireMap ==
    \* 'U+1F525', 'emoji_images/fire.png'
    (<<128293>> :> <<101, 109, 111, 106, 105, 95, 105, 109, 97, 103, 101, 115, 47, 102, 105,
       114, 101, 46, 112, 110, 103>>)

EmptyMap ==
    [k \in {} |-> <<>>]

EmojiMaps ==
    {FullMap, FireMap, EmptyMap}

---------------------------------------------------------------------------
(* Specification SpecOverlay: parse_ass_file and generate_overlay_filter   *)
(* on drawn inputs                                                         *)

OverlayInit ==
    /\ ov_op = "none"
    /\ ov_out = <<>>
    /\ \/ /\ ov_content \in AssContents
          /\ ov_emojis_data = <<>>
          /\ ov_map_exists = TRUE
          /\ ov_emoji_map = EmptyMap
       \/ /\ ov_content = <<>>
          /\ ov_emojis_data \in SeqsUpTo(Occurrences, MaxOcc)
          /\ ov_map_exists \in BOOLEAN
          /\ ov_emoji_map \in EmojiMaps

ParseAssFile ==
    /\ ov_op = "none"
    /\ ov_op' = "parse_ass_file"
    /\ ov_out' = parse_ass_file(ov_content)
    /\ UNCHANGED <<ov_content, ov_emojis_data, ov_map_exists, ov_emoji_map>>
    /\ UNCHANGED <<lexVars, cliVars, annotVars>>

GenerateOverlayFilter ==
    /\ ov_op = "none"
    /\ ov_op' = "generate_overlay_filter"
    /\ ov_out' = generate_overlay_filter(ov_emojis_data, ov_map_exists, ov_emoji_map)
    /\ UNCHANGED <<ov_content, ov_emojis_data, ov_map_exists, ov_emoji_map>>
    /\ UNCHANGED <<lexVars, cliVars, annotVars>>

OverlayNext ==
    \/ ParseAssFile
    \/ GenerateOverlayFilter

InitOverlay ==
    OverlayInit /\ LexIdle /\ CliIdle /\ AnnotIdle

SpecOverlay ==
    InitOverlay /\ [][OverlayNext]_vars

---------------------------------------------------------------------------
(* The overlay generator run as a program (lines 126-148)                  *)

\* paths given as the argument
InputPaths ==
    \* 'captions.ass', 'captions.txt', 'captions.ASS'
    { <<99, 97, 112, 116, 105, 111, 110, 115, 46, 97, 115, 115>>, <<99, 97, 112, 116, 105, 111,
       110, 115, 46, 116, 120, 116>>, <<99, 97, 112, 116, 105, 111, 110, 115, 46, 65, 83, 83>>,
      \* 'clip.assets/captions.ass', 'captions'
      <<99, 108, 105, 112, 46, 97, 115, 115, 101, 116, 115, 47, 99, 97, 112, 116, 105, 111,
         110, 115, 46, 97, 115, 115>>, <<99, 97, 112, 116, 105, 111, 110, 115>> }

\* directories that exist
Directories ==
    { <<>>, <<99, 108, 105, 112, 46, 97, 115, 115, 101, 116, 115>> }  \* 'clip.assets'

\* the directory part of a path (empty for a bare file name)
RECURSIVE DirName(_)
DirName(path) ==
    IF path = <<>> THEN <<>>
    ELSE IF path[Len(path)] = 47 THEN SubSeq(path, 1, Len(path) - 1)
    ELSE DirName(SubSeq(path, 1, Len(path) - 1))

TextFile(text) ==
    [kind |-> "markup", text |-> text, filter |-> <<>>]

FilterFile(filter) ==
    [kind |-> "filter", text |-> <<>>, filter |-> filter]

CliContents ==
    { JoinLines(<< <<91, 69, 118, 101, 110, 116, 115, 93>>,  \* '[Events]'
                   \* '0:00:01.00', '0:00:01.50', 'GO \U0001F525'
                   DialogueRow(<<48, 58, 48, 48, 58, 48, 49, 46, 48, 48>>, <<48, 58, 48, 48,
                      58, 48, 49, 46, 53, 48>>, <<71, 79, 32, 92, 85, 48, 48, 48, 49, 70, 53,
                      50, 53>>) >>),
      JoinLines(<< <<91, 69, 118, 101, 110, 116, 115, 93>>,  \* '[Events]'
                   \* '0:00:00.00', '0:00:00.50', 'HELLO'
                   DialogueRow(<<48, 58, 48, 48, 58, 48, 48, 46, 48, 48>>, <<48, 58, 48, 48,
                      58, 48, 48, 46, 53, 48>>, <<72, 69, 76, 76, 79>>) >>),
      JoinLines(<< <<91, 69, 118, 101, 110, 116, 115, 93>>,  \* '[Events]'
                   \* '0:00:04.00', '0:00:04.50', 'HI \ud83d\udc4d'
                   DialogueRow(<<48, 58, 48, 48, 58, 48, 52, 46, 48, 48>>, <<48, 58, 48, 48,
                      58, 48, 52, 46, 53, 48>>, <<72, 73, 32, 92, 117, 100, 56, 51, 100, 92,
                      117, 100, 99, 52, 100>>) >>) }

CliInit ==
    /\ cli_pc = "start"
    /\ cli_argv \in {<<>>} \cup {<<p>> : p \in InputPaths}
    /\ \E c \in CliContents, present \in SUBSET InputPaths :
           /\ Cardinality(present) \in {0, Cardinality(InputPaths)}
           /\ cli_fs = [p \in present |-> TextFile(c)]
    /\ cli_map_exists \in BOOLEAN
    /\ cli_emoji_map \in EmojiMaps
    /\ cli_emojis_data = <<>>
    /\ cli_filter_str = <<>>
    /\ cli_output_file = <<>>
    /\ cli_exit = -1

\* lines 127-129: no argument
CliUsage ==
    /\ cli_pc = "start"
    /\ Len(cli_argv) + 1 < 2
    /\ cli_pc' = "exited"
    /\ cli_exit' = 1
    /\ UNCHANGED <<cli_argv, cli_fs, cli_map_exists, cli_emoji_map, cli_emojis_data,
                   cli_filter_str, cli_output_file>>
    /\ UNCHANGED <<lexVars, overlayVars, annotVars>>

\* lines 131-136: parse the file named by the argument; an uncaught
\* exception (file not found) ends the interpreter with status 1
CliParse ==
    /\ cli_pc = "start"
    /\ Len(cli_argv) + 1 >= 2
    /\ IF cli_argv[1] \in DOMAIN cli_fs
       THEN /\ cli_emojis_data' = parse_ass_file(cli_fs[cli_argv[1]].text)
            /\ cli_pc' = "parsed"
            /\ cli_exit' = cli_exit
       ELSE /\ cli_emojis_data' = cli_emojis_data
            /\ cli_pc' = "exited"
            /\ cli_exit' = 1
    /\ UNCHANGED <<cli_argv, cli_fs, cli_map_exists, cli_emoji_map,
                   cli_filter_str, cli_output_file>>
    /\ UNCHANGED <<lexVars, overlayVars, annotVars>>

\* lines 147-148: nothing found, the script ends
CliNoEmoji ==
    /\ cli_pc = "parsed"
    /\ cli_emojis_data = <<>>
    /\ cli_pc' = "exited"
    /\ cli_exit' = 0
    /\ UNCHANGED <<cli_argv, cli_fs, cli_map_exists, cli_emoji_map, cli_emojis_data,
                   cli_filter_str, cli_output_file>>
    /\ UNCHANGED <<lexVars, overlayVars, annotVars>>

\* lines 138-142: build the filter and the name of the output file
CliGenerate ==
    /\ cli_pc = "parsed"
    /\ cli_emojis_data # <<>>
    /\ LET r == generate_overlay_filter(cli_emojis_data, cli_map_exists, cli_emoji_map)
       IN  IF r.raised = "none"
           THEN /\ cli_filter_str' = r.filter
                \* '.ass', '_emoji_filter.txt'
                /\ cli_output_file' = Replace(cli_argv[1], <<46, 97, 115, 115>>, <<95, 101,
                   109, 111, 106, 105, 95, 102, 105, 108, 116, 101, 114, 46, 116, 120, 116>>)
                /\ cli_pc' = "generated"
                /\ cli_exit' = cli_exit
           ELSE /\ cli_filter_str' = cli_filter_str
                /\ cli_output_file' = cli_output_file
                /\ cli_pc' = "exited"
                /\ cli_exit' = 1
    /\ UNCHANGED <<cli_argv, cli_fs, cli_map_exists, cli_emoji_map, cli_emojis_data>>
    /\ UNCHANGED <<lexVars, overlayVars, annotVars>>

\* lines 143-146: open(output_file, 'w') and write; the open fails when the
\* directory of the name does not exist
CliWrite ==
    /\ cli_pc = "generated"
    /\ IF DirName(cli_output_file) \in Directories
       THEN /\ cli_fs' = (cli_output_file :> FilterFile(cli_filter_str)) @@ cli_fs
            /\ cli_pc' = "written"
            /\ cli_exit' = 0
       ELSE /\ cli_fs' = cli_fs
            /\ cli_pc' = "exited"
            /\ cli_exit' = 1
    /\ UNCHANGED <<cli_argv, cli_map_exists, cli_emoji_map, cli_emojis_data,
                   cli_filter_str, cli_output_file>>
    /\ UNCHANGED <<lexVars, overlayVars, annotVars>>

CliNext ==
    \/ CliUsage
    \/ CliParse
    \/ CliNoEmoji
    \/ CliGenerate
    \/ CliWrite

InitCli ==
    CliInit /\ LexIdle /\ OverlayIdle /\ AnnotIdle

SpecCli ==
    InitCli /\ [][CliNext]_vars

---------------------------------------------------------------------------
(* The annotator: format_timestamp_ass, transcribe_to_srt and main         *)
(*                                                                         *)
(* Times are counted in 128ths of a second: such values are exact as       *)
(* floating-point numbers, and so is every operation format_timestamp_ass  *)
(* applies to them, so the integer arithmetic below is the arithmetic of   *)
(* the program. Two such times less than a centisecond apart can fall in   *)
(* the same centisecond.                                                   *)

\* most segments in a drawn stream
MaxSegments == 2

\* most words in a drawn segment
MaxWords == 4

SUPPORTED_MODELS ==
    {"tiny", "base", "small", "medium", "large", "large-v2", "large-v3"}

DEFAULT_MODEL_SIZE ==
    "base"

\* variant: the hour field is left at zero
format_timestamp_ass_no_hours(t) ==
    [hours |-> 0,
     minutes |-> (t % (128 * 3600)) \div (128 * 60),
     secs |-> (t % (128 * 60)) \div 128,
     centisecs |-> ((t % 128) * 100) \div 128]

\* format_timestamp_ass: the four numbers printed as H:MM:SS.CC
format_timestamp_ass(t) ==
    [hours |-> t \div (128 * 3600),
     minutes |-> (t % (128 * 3600)) \div (128 * 60),
     secs |-> (t % (128 * 60)) \div 128,
     centisecs |-> ((t % 128) * 100) \div 128]

\* a word token of the recogniser
Token(word, start, end) ==
    [word |-> word, start |-> start, end |-> end]

Tokens ==
    { Token(<<" ","L","o","v","e">>, 0, 64),
      Token(<<"i","m","p","o","r","t","a","n","t","!">>, 64, 208),
      Token(<<"f","i","r","e">>, 208, 208),
      Token(<<"s","o">>, 256, 257),
      Token(<<"t","h","e">>, 7664, 7728),
      Token(<<"p","a","r","t","y">>, 460784, 460816),
      Token(<<"o","k">>, 460816, 460880) }

\* a segment; an absent, None or empty words attribute is the empty list
Segment(words) ==
    [words |-> words]

\* word timestamps never run backwards and each word starts later than
\* the one before it
InOrder(words) ==
    \A i \in 1..(Len(words) - 1) :
        /\ words[i].end <= words[i + 1].start
        /\ words[i].start < words[i + 1].start

Segments ==
    {Segment(ws) : ws \in {s \in SeqsUpTo(Tokens, MaxWords) : InOrder(s)}}

RECURSIVE Spoken(_)
\* the words of a stream, in the order spoken
Spoken(stream) ==
    IF stream = <<>> THEN <<>>
    ELSE Head(stream).words \o Spoken(Tail(stream))

RECURSIVE StreamsUpTo(_)
\* the streams of at most n segments that follow one another in time
StreamsUpTo(n) ==
    IF n = 0 THEN {<<>>}
    ELSE LET shorter == StreamsUpTo(n - 1)
         IN  shorter \cup
             UNION {{Append(st, sg) :
                        sg \in {g \in Segments : InOrder(Spoken(st) \o g.words)}} :
                    st \in shorter}

\* the streams model.transcribe may yield
Streams ==
    StreamsUpTo(MaxSegments)

\* command lines (without the program name)
Argvs ==
    { <<>>,
      << <<"a",".","w","a","v">> >>,
      << <<"a",".","w","a","v">>, <<"s","u","b","s",".","s","r","t">> >>,
      << <<"a",".","w","a","v">>, <<"s","u","b","s",".","s","r","t">>, "huge" >> }

\* variant: the smart emoji is assigned without the importance gate
SelectEmoji_ungated(word_lower, segment_sentiment) ==
    LET contextual == get_contextual_emoji(word_lower, None)
    IN  IF contextual = NoEmoji
        THEN [emoji |-> assign_smart_emoji(word_lower, segment_sentiment), ai |-> TRUE]
        ELSE [emoji |-> contextual, ai |-> FALSE]

\* lines 341-345: the emoji of a word and whether the importance-gated
\* path chose it
SelectEmoji(word_lower, segment_sentiment) ==
    LET contextual == get_contextual_emoji(word_lower, None)
    IN  IF contextual = NoEmoji /\ is_important_word(word_lower)
        THEN [emoji |-> assign_smart_emoji(word_lower, segment_sentiment), ai |-> TRUE]
        ELSE [emoji |-> contextual, ai |-> FALSE]

\* variant: the rotation runs over the first five colour styles only
SelectStyle_five(word_lower, word_count) ==
    IF should_emphasize(word_lower) THEN "Emphasis"
    ELSE IF word_lower \in celebration_words THEN "Celebration"
    ELSE IF word_lower \in energetic_words THEN "Energetic"
    ELSE <<"Color1", "Color2", "Color3", "Color4", "Color5", "Color6">>[(word_count % 5) + 1]

\* lines 352-362: the style of a word that is the word_count-th event
SelectStyle(word_lower, word_count) ==
    IF should_emphasize(word_lower) THEN "Emphasis"
    ELSE IF word_lower \in celebration_words THEN "Celebration"
    ELSE IF word_lower \in energetic_words THEN "Energetic"
    ELSE <<"Color1", "Color2", "Color3", "Color4", "Color5", "Color6">>[(word_count % 6) + 1]

\* variant: both timestamps of an event taken from the start of the word
Dialogue_start_only(word, word_count, segment_sentiment) ==
    LET word_clean == Strip(word.word, Whitespace)
        word_lower == Strip(Lower(word_clean), PunctChars)
        chosen == SelectEmoji(word_lower, segment_sentiment)
    IN  [start |-> format_timestamp_ass(word.start),
         end |-> format_timestamp_ass(word.start),
         style |-> SelectStyle(word_lower, word_count),
         text_raw |-> Upper(word_clean),
         emoji |-> chosen.emoji,
         bookends |-> should_emphasize(word_lower)]

\* lines 331-364: the Dialogue row written for a word
Dialogue(word, word_count, segment_sentiment) ==
    LET word_clean == Strip(word.word, Whitespace)
        word_lower == Strip(Lower(word_clean), PunctChars)
        chosen == SelectEmoji(word_lower, segment_sentiment)
    IN  [start |-> format_timestamp_ass(word.start),
         end |-> format_timestamp_ass(word.end),
         style |-> SelectStyle(word_lower, word_count),
         text_raw |-> Upper(word_clean),
         emoji |-> chosen.emoji,
         bookends |-> should_emphasize(word_lower)]

\* line 344-345: does the word take the importance-gated path
AiAssigned(word, segment_sentiment) ==
    SelectEmoji(Strip(Lower(Strip(word.word, Whitespace)), PunctChars), segment_sentiment).ai

\* [w.word for w in segment.words]
RECURSIVE SegmentWords(_)
SegmentWords(words) ==
    IF words = <<>> THEN <<>> ELSE <<Head(words).word>> \o SegmentWords(Tail(words))

\* lines 318-320: the count printed before processing
RECURSIVE PreCount(_)
PreCount(segments) ==
    IF segments = <<>> THEN 0
    ELSE (IF Head(segments).words # <<>> THEN Len(Head(segments).words) ELSE 0)
         + PreCount(Tail(segments))

\* variant: an error the handlers of main do not name is reported as 4
ExitCodeFor_runtime(exc) ==
    IF exc = "FileNotFoundError" THEN 2
    ELSE IF exc = "ValueError" THEN 3
    ELSE IF exc = "RuntimeError" THEN 3
    ELSE 5

\* lines 417-432: the exit status main gives for an exception of
\* transcribe_to_srt
ExitCodeFor(exc) ==
    IF exc = "FileNotFoundError" THEN 2
    ELSE IF exc = "ValueError" THEN 3
    ELSE IF exc = "RuntimeError" THEN 4
    ELSE 5

\* the state left by an exception of class exc raised at `origin` whose
\* message names `path`
Raise(exc, origin, path) ==
    /\ an_pc' = "exited"
    /\ an_failure' = origin
    /\ an_exc' = exc
    /\ an_error_path' = path
    /\ an_exit' = ExitCodeFor(exc)

NoStats ==
    [total_words |-> 0, emoji_count |-> 0, ai_assigned_emojis |-> 0,
     sentiment_distribution |-> <<>>]

AnnotInit ==
    /\ an_pc = "import"
    /\ an_argv \in Argvs
    /\ an_model_size = DEFAULT_MODEL_SIZE
    /\ an_warned = FALSE
    /\ an_model_loaded = FALSE
    /\ an_segments = <<>>
    /\ an_ass_output = <<>>
    /\ an_out_opened = FALSE
    /\ an_events = <<>>
    /\ an_seg = 0
    /\ an_w = 0
    /\ an_sentiment = NEUTRAL
    /\ an_counts = [word_count |-> 0, total_words |-> 0, emoji_count |-> 0,
                    important_word_count |-> 0]
    /\ an_sentiment_stats = <<>>
    /\ an_stats = NoStats
    /\ an_failure = "none"
    /\ an_exc = "none"
    /\ an_error_path = <<>>
    /\ an_exit = -1

\* lines 14-18: importing faster_whisper, sys.exit(1) when it is missing
ImportModule ==
    /\ an_pc = "import"
    /\ \E installed \in BOOLEAN :
          IF installed
          THEN /\ an_pc' = "main"
               /\ UNCHANGED <<an_failure, an_exc, an_error_path, an_exit>>
          ELSE /\ an_pc' = "exited"
               /\ an_failure' = "import"
               /\ an_exit' = 1
               /\ UNCHANGED <<an_exc, an_error_path>>
    /\ UNCHANGED <<an_argv, an_model_size, an_warned, an_model_loaded, an_segments,
                   an_ass_output, an_out_opened, an_events, an_seg, an_w, an_sentiment,
                   an_counts, an_sentiment_stats, an_stats>>
    /\ UNCHANGED <<lexVars, overlayVars, cliVars>>

\* lines 396-411: the argument check of main
MainArgs ==
    /\ an_pc = "main"
    /\ IF Len(an_argv) + 1 < 3
       THEN /\ an_pc' = "exited"
            /\ an_failure' = "usage"
            /\ an_exit' = 1
            /\ UNCHANGED an_model_size
       ELSE /\ an_pc' = "check_audio"
            /\ an_model_size' = IF Len(an_argv) + 1 > 3 THEN an_argv[3]
                                ELSE DEFAULT_MODEL_SIZE
            /\ UNCHANGED <<an_failure, an_exit>>
    /\ UNCHANGED <<an_argv, an_warned, an_model_loaded, an_segments, an_ass_output,
                   an_out_opened, an_events, an_seg, an_w, an_sentiment, an_counts,
                   an_sentiment_stats, an_stats, an_exc, an_error_path>>
    /\ UNCHANGED <<lexVars, overlayVars, cliVars>>

\* lines 232-236: the audio file must exist; an unsupported model size is
\* only warned about
CheckAudio ==
    /\ an_pc = "check_audio"
    /\ \E exists \in BOOLEAN :
          IF exists
          THEN /\ an_pc' = "load_model"
               /\ an_warned' = (an_model_size \notin SUPPORTED_MODELS)
               /\ UNCHANGED <<an_failure, an_exc, an_error_path, an_exit>>
          ELSE /\ Raise("FileNotFoundError", "audio", an_argv[1])
               /\ UNCHANGED an_warned
    /\ UNCHANGED <<an_argv, an_model_size, an_model_loaded, an_segments, an_ass_output,
                   an_out_opened, an_events, an_seg, an_w, an_sentiment, an_counts,
                   an_sentiment_stats, an_stats>>
    /\ UNCHANGED <<lexVars, overlayVars, cliVars>>

\* lines 243-253: WhisperModel(...), any exception becomes RuntimeError
LoadModel ==
    /\ an_pc = "load_model"
    /\ \E ok \in BOOLEAN :
          IF ok
          THEN /\ an_pc' = "transcribe"
               /\ an_model_loaded' = TRUE
               /\ UNCHANGED <<an_failure, an_exc, an_error_path, an_exit>>
          ELSE /\ Raise("RuntimeError", "model", <<>>)
               /\ UNCHANGED an_model_loaded
    /\ UNCHANGED <<an_argv, an_model_size, an_warned, an_segments, an_ass_output,
                   an_out_opened, an_events, an_seg, an_w, an_sentiment, an_counts,
                   an_sentiment_stats, an_stats>>
    /\ UNCHANGED <<lexVars, overlayVars, cliVars>>

\* lines 257-277: model.transcribe(...), any exception becomes
\* RuntimeError; then the name of the output file
Transcribe ==
    /\ an_pc = "transcribe"
    /\ \E ok \in BOOLEAN :
          IF ok
          THEN /\ an_pc' = "open_output"
               /\ an_segments' \in Streams
               /\ an_ass_output' = Replace(an_argv[2], <<".","s","r","t">>,
                                           <<".","a","s","s">>)
               /\ UNCHANGED <<an_failure, an_exc, an_error_path, an_exit>>
          ELSE /\ Raise("RuntimeError", "transcribe", <<>>)
               /\ UNCHANGED <<an_segments, an_ass_output>>
    /\ UNCHANGED <<an_argv, an_model_size, an_warned, an_model_loaded, an_out_opened,
                   an_events, an_seg, an_w, an_sentiment, an_counts,
                   an_sentiment_stats, an_stats>>
    /\ UNCHANGED <<lexVars, overlayVars, cliVars>>

\* lines 279-322: open the output file, write the header, reset the
\* counters and count the words; an IOError of open or write is raised
\* again as IOError naming ass_output
OpenOutput ==
    /\ an_pc = "open_output"
    /\ \E ok \in BOOLEAN :
          IF ok
          THEN /\ an_pc' = "segment"
               /\ an_out_opened' = TRUE
               /\ an_seg' = 1
               /\ an_counts' = [word_count |-> 0, total_words |-> PreCount(an_segments),
                                emoji_count |-> 0, important_word_count |-> 0]
               /\ UNCHANGED <<an_failure, an_exc, an_error_path, an_exit>>
          ELSE /\ Raise("OSError", "write", an_ass_output)
               /\ UNCHANGED <<an_out_opened, an_seg, an_counts>>
    /\ UNCHANGED <<an_argv, an_model_size, an_warned, an_model_loaded, an_segments,
                   an_ass_output, an_events, an_w, an_sentiment, an_sentiment_stats,
                   an_stats>>
    /\ UNCHANGED <<lexVars, overlayVars, cliVars>>

\* lines 324-328: the next segment; one without words is passed over
BeginSegment ==
    /\ an_pc = "segment"
    /\ an_seg <= Len(an_segments)
    /\ LET segment == an_segments[an_seg]
       IN  IF segment.words # <<>>
           THEN LET segment_sentiment == analyze_sentiment(SegmentWords(segment.words))
                IN  /\ an_sentiment' = segment_sentiment
                    /\ an_sentiment_stats' =
                          IF segment_sentiment \in DOMAIN an_sentiment_stats
                          THEN [an_sentiment_stats EXCEPT ![segment_sentiment] = @ + 1]
                          ELSE (segment_sentiment :> 1) @@ an_sentiment_stats
                    /\ an_w' = 1
                    /\ an_pc' = "word"
                    /\ UNCHANGED an_seg
           ELSE /\ an_seg' = an_seg + 1
                /\ UNCHANGED <<an_sentiment, an_sentiment_stats, an_w, an_pc>>
    /\ UNCHANGED <<an_argv, an_model_size, an_warned, an_model_loaded, an_segments,
                   an_ass_output, an_out_opened, an_events, an_counts, an_stats,
                   an_failure, an_exc, an_error_path, an_exit>>
    /\ UNCHANGED <<lexVars, overlayVars, cliVars>>

\* lines 330-365: one word: its row is written and the counters advance;
\* an IOError of the write is raised again as IOError naming ass_output
EmitWord ==
    /\ an_pc = "word"
    /\ LET words == an_segments[an_seg].words
           word == words[an_w]
           row == Dialogue(word, an_counts.word_count, an_sentiment)
       IN  \E ok \in BOOLEAN :
              IF ok
              THEN /\ an_events' = Append(an_events, row)
                   /\ an_counts' =
                         [an_counts EXCEPT
                            !.important_word_count =
                                IF AiAssigned(word, an_sentiment) THEN @ + 1 ELSE @,
                            !.emoji_count = IF row.emoji # NoEmoji THEN @ + 1 ELSE @,
                            !.word_count = @ + 1]
                   /\ IF an_w < Len(words)
                      THEN /\ an_w' = an_w + 1
                           /\ UNCHANGED <<an_seg, an_pc>>
                      ELSE /\ an_w' = 0
                           /\ an_seg' = an_seg + 1
                           /\ an_pc' = "segment"
                   /\ UNCHANGED <<an_failure, an_exc, an_error_path, an_exit>>
              ELSE /\ Raise("OSError", "write", an_ass_output)
                   /\ UNCHANGED <<an_events, an_counts, an_w, an_seg>>
    /\ UNCHANGED <<an_argv, an_model_size, an_warned, an_model_loaded, an_segments,
                   an_ass_output, an_out_opened, an_sentiment, an_sentiment_stats,
                   an_stats>>
    /\ UNCHANGED <<lexVars, overlayVars, cliVars>>

\* lines 367-389 and 414-416: the stream is exhausted: the statistics are
\* stored, transcribe_to_srt returns and main exits with 0
Finish ==
    /\ an_pc = "segment"
    /\ an_seg > Len(an_segments)
    /\ an_stats' = [total_words |-> an_counts.word_count,
                    emoji_count |-> an_counts.emoji_count,
                    ai_assigned_emojis |-> an_counts.important_word_count,
                    sentiment_distribution |-> an_sentiment_stats]
    /\ an_pc' = "exited"
    /\ an_exit' = 0
    /\ UNCHANGED <<an_argv, an_model_size, an_warned, an_model_loaded, an_segments,
                   an_ass_output, an_out_opened, an_events, an_seg, an_w, an_sentiment,
                   an_counts, an_sentiment_stats, an_failure, an_exc, an_error_path>>
    /\ UNCHANGED <<lexVars, overlayVars, cliVars>>

AnnotNext ==
    \/ ImportModule
    \/ MainArgs
    \/ CheckAudio
    \/ LoadModel
    \/ Transcribe
    \/ OpenOutput
    \/ BeginSegment
    \/ EmitWord
    \/ Finish

InitAnnot ==
    AnnotInit /\ LexIdle /\ OverlayIdle /\ CliIdle

SpecAnnot ==
    InitAnnot /\ [][AnnotNext]_vars

---------------------------------------------------------------------------
(* Properties of the AIEnhancer functions (SpecLex)                        *)

\* number of list positions whose normalized word is in the lexicon
HitCount(ws, lexicon) ==
    Cardinality({i \in 1..Len(ws) : Strip(Lower(ws[i]), PunctChars) \in lexicon})

\* C4: analyze_sentiment returns energetic whenever a normalized word is in
\* the energetic lexicon, else positive when the positive count exceeds the
\* negative count, else negative when the negative count exceeds the
\* positive count, else neutral; the scenario list gives positive.
C4_SentimentPriority ==
    lx_op = "analyze_sentiment" =>
        LET p == HitCount(lx_words, positive_words)
            n == HitCount(lx_words, negative_words)
            e == HitCount(lx_words, energetic_words)
        IN  /\ (e >= 1) => lx_result = ENERGETIC
            /\ (e = 0 /\ p > n) => lx_result = POSITIVE
            /\ (e = 0 /\ n > p) => lx_result = NEGATIVE
            /\ (e = 0 /\ p = n) => lx_result = NEUTRAL
            /\ (lx_words = ScenarioList) => lx_result = POSITIVE

\* a tie with both counts >= 1 has been classified
C4_Witness ==
    /\ lx_op = "analyze_sentiment"
    /\ HitCount(lx_words, positive_words) = 1
    /\ HitCount(lx_words, negative_words) = 1
    /\ HitCount(lx_words, energetic_words) = 0
    /\ lx_result = NEUTRAL

InSpecificLexicon(word) ==
    \/ word \in emphasis_words
    \/ word \in positive_words
    \/ word \in negative_words
    \/ word \in energetic_words

\* C5 as stated: every word of length >= 5 that is neither a filler nor in
\* a specific lexicon is important.
C5_Original ==
    (/\ lx_op = "is_important_word"
     /\ Len(lx_word) >= 5
     /\ lx_word \notin filler_words
     /\ ~InSpecificLexicon(lx_word)) => lx_result = TRUE

\* C5 amended: every word of length 5 to MAX_WORD_LENGTH that is neither a
\* filler nor in a specific lexicon is important; a longer word is not.
C5_LengthRule ==
    /\ (/\ lx_op = "is_important_word"
        /\ Len(lx_word) >= 5
        /\ Len(lx_word) <= MAX_WORD_LENGTH
        /\ lx_word \notin filler_words
        /\ ~InSpecificLexicon(lx_word)) => lx_result = TRUE
    /\ (/\ lx_op = "is_important_word"
        /\ Len(lx_word) > MAX_WORD_LENGTH) => lx_result = FALSE

\* a five-letter word outside every lexicon has been judged important
C5_Witness ==
    /\ lx_op = "is_important_word"
    /\ Len(lx_word) = 5
    /\ lx_word \notin filler_words
    /\ ~InSpecificLexicon(lx_word)
    /\ lx_result = TRUE

\* the preceding text as the lookup sees it
PrevText(prev) ==
    IF prev = None THEN <<>> ELSE Lower(JoinSpace(prev[1]))

FireRuleApplies(word, prev) ==
    /\ Contains(PrevText(prev), <<"o","n"," ","f","i","r","e">>)
    /\ word \in {<<"f","i","r","e">>, <<"h","o","t">>}

HeartRuleApplies(word, prev) ==
    /\ Contains(PrevText(prev), <<"l","o","v","e">>)
    /\ word \in {<<"y","o","u">>, <<"i","t">>, <<"t","h","i","s">>}

C7_Rules(word, sentiment) ==
    << <<\E it \in emoji_map_items : it[1] = word,
         IF \E it \in emoji_map_items : it[1] = word
         THEN (CHOOSE it \in emoji_map_items : it[1] = word)[2] ELSE SPARKLES>>,
       <<sentiment = POSITIVE, SPARKLES>>,
       <<sentiment = ENERGETIC, FIRE>>,
       <<sentiment = NEGATIVE, THOUGHT>>,
       <<\E p \in motion_patterns : Contains(word, p), DASH>>,
       <<\E p \in achievement_patterns : Contains(word, p), TROPHY>>,
       <<\E p \in learning_patterns : Contains(word, p), BULB>>,
       <<\E p \in social_patterns : Contains(word, p), BUSTS>>,
       <<\E p \in temporal_patterns : Contains(word, p), CLOCK>>,
       <<\E p \in interrogative_patterns : Contains(word, p), THINKING>>,
       <<TRUE, SPARKLES>> >>

Glyphs ==
    {HEART, SPARKLING_HEART, THUMBS_UP, SMILE, SPARKLES, FIRE, THOUGHT, DASH,
     TROPHY, BULB, BUSTS, CLOCK, THINKING}

\* C7: assign_smart_emoji returns one glyph for every word and label, the
\* glyph of the first applicable rule in the order lexicon entry, sentiment
\* fallback, motion, achievement, learning, social, temporal,
\* interrogative, default.
C7_FirstRuleWins ==
    lx_op = "assign_smart_emoji" =>
        LET rules == C7_Rules(lx_word, lx_sentiment)
            first == CHOOSE i \in 1..Len(rules) :
                         rules[i][1] /\ \A j \in 1..(i - 1) : ~rules[j][1]
        IN  /\ lx_result \in Glyphs
            /\ lx_result = rules[first][2]

\* a word matching both the motion and the learning family got the motion glyph
C7_Witness ==
    /\ lx_op = "assign_smart_emoji"
    /\ lx_sentiment = NEUTRAL
    /\ \E p \in motion_patterns : Contains(lx_word, p)
    /\ \E p \in learning_patterns : Contains(lx_word, p)
    /\ lx_result = DASH

---------------------------------------------------------------------------
(* Properties of parse_ass_file and generate_overlay_filter (SpecOverlay)  *)

\* the overlay parts of a filter, in order
OverlayParts(filter) ==
    SelectSeq(filter, LAMBDA p : p.t = "overlay")

\* the movie parts of a filter, in order
MovieParts(filter) ==
    SelectSeq(filter, LAMBDA p : p.t = "movie")

\* C1: in the returned filter the first clause consumes layer v0 and each
\* clause consumes the layer the clause before it produced.
C1_UnbrokenChain ==
    (ov_op = "generate_overlay_filter" /\ ov_out.raised = "none") =>
        LET cs == OverlayParts(ov_out.filter)
        IN  /\ cs # <<>> => cs[1].in = 0
            /\ \A k \in 1..(Len(cs) - 1) : cs[k].out = cs[k + 1].in

\* the occurrences whose decoded glyph is a key of the image map
Surviving(emojis_data, emoji_map_file) ==
    SelectSeq(emojis_data, LAMBDA d : DecodeGlyph(d.emoji) \in DOMAIN emoji_map_file)

\* C2: a glyph missing from the map never aborts the build: the call
\* returns one clause per occurrence whose decoded glyph is a key of the
\* map, in input order, joined by the separator without trailing
\* separator, with one warning per omitted occurrence; the result is empty
\* exactly when no occurrence survives or the map file does not exist.
C2_MissingGlyphSkipped ==
    ov_op = "generate_overlay_filter" =>
        LET kept == IF ov_map_exists
                    THEN Surviving(ov_emojis_data, ov_emoji_map) ELSE <<>>
            ms == MovieParts(ov_out.filter)
            cs == OverlayParts(ov_out.filter)
        IN  /\ ov_out.raised = "none"
            /\ Len(ms) = Len(kept)
            /\ Len(cs) = Len(kept)
            /\ \A k \in 1..Len(kept) :
                  /\ ms[k].image = ov_emoji_map[DecodeGlyph(kept[k].emoji)]
                  /\ cs[k].from = time_to_seconds(kept[k].start)
                  /\ cs[k].to = time_to_seconds(kept[k].end)
            /\ Len(ov_out.filter) = (IF kept = <<>> THEN 0 ELSE 4 * Len(kept) - 1)
            /\ ov_out.filter # <<>> => ov_out.filter[Len(ov_out.filter)] # Semicolon
            /\ ov_map_exists => Len(ov_out.warnings) = Len(ov_emojis_data) - Len(kept)
            /\ (ov_out.filter = <<>>) <=> (kept = <<>>)

\* the occurrences C3 describes for one line: one per maximal run, the
\* glyph being the whole run
C3_LineOccurrences(line) ==
    IF StartsWith(line, <<68, 105, 97, 108, 111, 103, 117, 101, 58>>)  \* 'Dialogue:'
    THEN LET parts == Split(line, <<44>>, 9)
         IN  IF Len(parts) < 10 THEN <<>>
             ELSE LET runs == Matches(parts[10], 1)
                  IN  [k \in 1..Len(runs) |->
                          [emoji |-> Flatten(runs[k]), start |-> parts[2],
                           end |-> parts[3], text |-> parts[10]]]
    ELSE <<>>

RECURSIVE C3_Occurrences(_)
C3_Occurrences(lines) ==
    IF lines = <<>> THEN <<>>
    ELSE C3_LineOccurrences(Head(lines)) \o C3_Occurrences(Tail(lines))

\* the lines of the [Events] section of a text
C3_EventLines(content) ==
    LET marker == <<91, 69, 118, 101, 110, 116, 115, 93>>  \* '[Events]'
    IN  IF FindFirst(content, marker) = 0 THEN <<>>
        ELSE Split(Split(content, marker, -1)[2], <<10>>, -1)

\* C3: parse_ass_file returns, for the Dialogue lines of the [Events]
\* section with at least 10 fields, one occurrence per maximal run of
\* emoji/escaped-Unicode characters of the text field, in order, whose
\* glyph is the whole run and whose start and end are the line's 2nd and
\* 3rd fields; other lines yield none.
C3_WholeRuns ==
    ov_op = "parse_ass_file" =>
        ov_out = C3_Occurrences(C3_EventLines(ov_content))

---------------------------------------------------------------------------
(* Properties of the overlay generator run as a program (SpecCli)          *)

\* the last position of character c in s, 0 if none
C10_LastIndex(s, c) ==
    IF \E k \in 1..Len(s) : s[k] = c
    THEN CHOOSE k \in 1..Len(s) : s[k] = c /\ \A j \in (k + 1)..Len(s) : s[j] # c
    ELSE 0

\* a path without the extension of its last component
C10_Stem(path) ==
    LET dot == C10_LastIndex(path, 46)
        slash == C10_LastIndex(path, 47)
    IN  IF dot > slash + 1 THEN SubSeq(path, 1, dot - 1) ELSE path

\* C10: the result is written to <input-stem>_emoji_filter.txt, a path
\* different from the input path, and the input file is not overwritten.
C10_InputPreserved ==
    cli_pc = "written" =>
        /\ cli_output_file = C10_Stem(cli_argv[1])
              \o <<95, 101, 109, 111, 106, 105, 95, 102, 105, 108, 116, 101, 114,
                   46, 116, 120, 116>>                  \* '_emoji_filter.txt'
        /\ cli_output_file # cli_argv[1]
        /\ cli_fs[cli_argv[1]].kind = "markup"

---------------------------------------------------------------------------
(* Properties of the annotator (SpecAnnot)                                 *)

RECURSIVE C8_StreamWords(_)
\* the word tokens of a stream, in stream order
C8_StreamWords(segments) ==
    IF segments = <<>> THEN <<>>
    ELSE Head(segments).words \o C8_StreamWords(Tail(segments))

\* the number of segments of a stream that have word-level timing
C8_TimedSegments(segments) ==
    Cardinality({i \in 1..Len(segments) : segments[i].words # <<>>})

RECURSIVE C8_Sum(_, _)
\* the sum of the values of a function over the keys in a set
C8_Sum(f, keys) ==
    IF keys = {} THEN 0
    ELSE LET k == CHOOSE x \in keys : TRUE
         IN  f[k] + C8_Sum(f, keys \ {k})

\* C8: once the stream is exhausted there is one Dialogue event per word
\* token, in stream order, with that word's own start and end; the
\* reported total-words figure equals the number of events and the sum of
\* the word counts of the segments with words; the per-sentiment segment
\* counts sum to the number of those segments.
C8_OneEventPerWord ==
    (an_pc = "exited" /\ an_exit = 0) =>
        LET tokens == C8_StreamWords(an_segments)
        IN  /\ Len(an_events) = Len(tokens)
            /\ \A k \in 1..Len(tokens) :
                  /\ an_events[k].start = format_timestamp_ass(tokens[k].start)
                  /\ an_events[k].end = format_timestamp_ass(tokens[k].end)
                  /\ an_events[k].text_raw = Upper(Strip(tokens[k].word, Whitespace))
            /\ an_stats.total_words = Len(an_events)
            /\ an_counts.total_words = Len(an_events)
            /\ C8_Sum(an_stats.sentiment_distribution,
                      DOMAIN an_stats.sentiment_distribution)
                  = C8_TimedSegments(an_segments)

\* a stream of one segment without words and one with two words has been
\* written out
C8_Witness ==
    /\ an_pc = "exited"
    /\ an_exit = 0
    /\ Len(an_segments) = 2
    /\ C8_TimedSegments(an_segments) = 1
    /\ Len(an_events) = 2
    /\ an_events[1].start # an_events[2].start

C11_WordLower(token) ==
    Strip(Lower(Strip(token.word, Whitespace)), PunctChars)

\* the tokens processed so far, in stream order
C11_Processed ==
    SubSeq(Spoken(an_segments), 1, an_counts.word_count)

\* number of processed tokens for which the context-aware lookup gave an emoji
C11_Contextual ==
    Cardinality({k \in 1..Len(C11_Processed) :
        get_contextual_emoji(C11_WordLower(C11_Processed[k]), None) # NoEmoji})

\* number of processed tokens without context-aware emoji that are important
C11_Gated ==
    Cardinality({k \in 1..Len(C11_Processed) :
        /\ get_contextual_emoji(C11_WordLower(C11_Processed[k]), None) = NoEmoji
        /\ is_important_word(C11_WordLower(C11_Processed[k]))})

\* C11: after any prefix of the word stream the AI-assigned counter is the
\* number of words for which the context-aware lookup returned no emoji and
\* the word is important; the emoji counter is the number of events whose
\* text has an emoji token; AI-assigned <= emojis placed <= words
\* processed; emojis placed = words with a context-aware emoji +
\* AI-assigned.
C11_EmojiCounters ==
    an_out_opened =>
        /\ Len(an_events) = an_counts.word_count
        /\ an_counts.important_word_count = C11_Gated
        /\ an_counts.emoji_count =
              Cardinality({k \in 1..Len(an_events) : an_events[k].emoji # NoEmoji})
        /\ an_counts.important_word_count <= an_counts.emoji_count
        /\ an_counts.emoji_count <= an_counts.word_count
        /\ an_counts.emoji_count = C11_Contextual + an_counts.important_word_count

\* a prefix with a context-aware emoji, an AI-assigned emoji and a word
\* without emoji has been processed
C11_Witness ==
    /\ an_out_opened
    /\ C11_Contextual >= 1
    /\ an_counts.important_word_count >= 1
    /\ an_counts.emoji_count < an_counts.word_count

\* the name of the n-th rotating colour style
C12_Color(n) ==
    IF n = 1 THEN "Color1"
    ELSE IF n = 2 THEN "Color2"
    ELSE IF n = 3 THEN "Color3"
    ELSE IF n = 4 THEN "Color4"
    ELSE IF n = 5 THEN "Color5"
    ELSE "Color6"

\* the style the rule gives the k-th event (k from 0) for a normalized word
C12_Expected(word_lower, k) ==
    IF word_lower \in emphasis_words THEN "Emphasis"
    ELSE IF word_lower \in celebration_words THEN "Celebration"
    ELSE IF word_lower \in energetic_words THEN "Energetic"
    ELSE C12_Color((k % 6) + 1)

\* C12: the style of the k-th emitted event, k counted from 0 over the
\* whole stream and advanced by every word, is Emphasis if the word is
\* emphasis-flagged, else Celebration if it is a celebration word, else
\* Energetic if it is in the energetic lexicon, else Color(k mod 6 + 1);
\* the sparkle bookends are on the text exactly when the style is Emphasis.
C12_StyleRule ==
    \A k \in 1..Len(an_events) :
        /\ an_events[k].style =
              C12_Expected(C11_WordLower(Spoken(an_segments)[k]), k - 1)
        /\ an_events[k].bookends = (an_events[k].style = "Emphasis")

\* seven events over two segments: the seventh is back at Color1 after an
\* emphasised, an energetic and a celebration word took part in the count
C12_Witness ==
    /\ Len(an_events) = 7
    /\ Len(an_segments[1].words) = 4
    /\ an_events[1].style = "Color1"
    /\ an_events[2].style = "Emphasis"
    /\ an_events[3].style = "Energetic"
    /\ an_events[4].style = "Color4"
    /\ an_events[6].style = "Celebration"
    /\ an_events[7].style = "Color1"

\* the instant a timestamp H:MM:SS.CC denotes, in centiseconds
C13_Centiseconds(ts) ==
    ((ts.hours * 60 + ts.minutes) * 60 + ts.secs) * 100 + ts.centisecs

\* C13: every Dialogue event written for a word token with start <= end
\* has a start timestamp not later than its end timestamp: truncation to
\* centiseconds never reorders the two.
C13_StartNotAfterEnd ==
    \A k \in 1..Len(an_events) :
        LET token == Spoken(an_segments)[k]
        IN  (token.start <= token.end) =>
                /\ an_events[k].start = format_timestamp_ass(token.start)
                /\ an_events[k].end = format_timestamp_ass(token.end)
                /\ C13_Centiseconds(an_events[k].start)
                      <= C13_Centiseconds(an_events[k].end)

\* events have been written for a token that ends less than a centisecond
\* after it starts (both timestamps equal) and for a token that starts
\* before a full hour and ends after it
C13_Witness ==
    /\ \E k \in 1..Len(an_events) :
          /\ Spoken(an_segments)[k].start < Spoken(an_segments)[k].end
          /\ an_events[k].start = an_events[k].end
    /\ \E k \in 1..Len(an_events) :
          /\ an_events[k].start.hours < an_events[k].end.hours
          /\ an_events[k].start.centisecs > an_events[k].end.centisecs

RECURSIVE C14_Normalized(_)
\* the normalized forms (trimmed, lowercased, punctuation-stripped) of the
\* tokens of a segment, as the emitter computes them for each word
C14_Normalized(words) ==
    IF words = <<>> THEN <<>>
    ELSE <<C11_WordLower(Head(words))>> \o C14_Normalized(Tail(words))

\* C14: while the words of a segment are emitted, the sentiment label of the
\* segment is analyze_sentiment of the normalized word forms the emitter
\* uses for its per-word decisions; whitespace around a token's raw text
\* does not change the label.
C14_SentimentOfNormalized ==
    an_pc = "word" =>
        an_sentiment = analyze_sentiment(C14_Normalized(an_segments[an_seg].words))

===========================================================================
